---- MODULE Spec2Model ----
(***************************************************************************)
(* Model of crowdmath/rational_goldbach_solver.py: the truncated           *)
(* semidomain generator, the coverage checker and the rational             *)
(* enumeration driver.                                                     *)
(*                                                                         *)
(* Numbers.  The driver hands float(r) to the checker, so every value the  *)
(* generator and the checker compute is a binary floating-point number.    *)
(* A number is the record [m, e] standing for m * 2^e, kept canonical so   *)
(* that equal values are equal records: m = 0 and e = 0, or                *)
(* 2^(MantBits-1) <= |m| < 2^MantBits.  A float keeps MantBits significant *)
(* bits and rounds to nearest, ties to even; the exponent range is not     *)
(* bounded (no value of the bounded inputs below comes near the overflow   *)
(* or underflow of a double).  The integers of the program (max_value,     *)
(* even_num) stay below 2^MantBits and are therefore exact in this form,   *)
(* as Python's comparison of an int with a float is.                       *)
(***************************************************************************)
EXTENDS Integers, Sequences, FiniteSets, TLC

\* ---------------------------------------------------------------- bounds
\* significant bits of a float (a double has 53; fewer here, to keep products within TLC integers)
MantBits == 12
\* largest numerator and denominator of the bases given to the functions
MaxBaseInt == 3
\* largest integer ceiling given to the generator and the checker
MaxFnValue == 16
\* largest explicit max_power given to the generator
MaxFnPower == 4
\* largest small max_value, and largest small denominator bound, of a search
MaxSmallValue == 6
MaxSmallDen == 4

\* ------------------------------------------------------ program constants
\* max_power=20, the default the checker relies on
DefaultMaxPower == 20
\* the module-level testing parameters
DefaultMaxValue == 1000
DefaultMaxDenominator == 10
DefaultMinDenominator == 1
\* range(4, max_value + 1, 2)
FirstEvenZero == 4 - 4
FirstEven == 4
EvenStep == 2

\* ------------------------------------------------------------- arithmetic
Pow2(k) == IF k <= 0 THEN 1 ELSE 2 ^ k

\* number of bits of a non-negative integer below 2^30
BitLen(m) == CHOOSE b \in 0..30 : m < Pow2(b) /\ (b = 0 \/ Pow2(b - 1) <= m)

\* the positive value m * 2^e rounded to a float: nearest, ties to even
RoundToFloat(m, e) ==
  LET bits == BitLen(m)
  IN  IF bits <= MantBits
      THEN [m |-> m * Pow2(MantBits - bits), e |-> e - (MantBits - bits)]
      ELSE LET s    == bits - MantBits
               q    == m \div Pow2(s)
               rem  == m % Pow2(s)
               half == Pow2(s - 1)
               up   == rem > half \/ (rem = half /\ q % 2 = 1)
           IN  IF up /\ q + 1 = Pow2(MantBits)
               THEN [m |-> Pow2(MantBits - 1), e |-> e + s + 1]
               ELSE [m |-> IF up THEN q + 1 ELSE q, e |-> e + s]

Neg(a) == [m |-> 0 - a.m, e |-> a.e]

\* an integer i, |i| < 2^MantBits, as an exact number
IntToNum(i) ==
  IF i = 0 THEN [m |-> 0, e |-> 0]
  ELSE IF i > 0 THEN RoundToFloat(i, 0)
  ELSE Neg(RoundToFloat(0 - i, 0))

One == IntToNum(1)

\* a < b for positive numbers
PosLt(a, b) == a.e < b.e \/ (a.e = b.e /\ a.m < b.m)

\* a < b, the comparison of Python numbers (exact for int against float)
num_lt(a, b) ==
  IF a.m > 0 /\ b.m > 0 THEN PosLt(a, b)
  ELSE IF a.m <= 0 /\ b.m > 0 THEN TRUE
  ELSE IF a.m > 0 /\ b.m <= 0 THEN FALSE
  ELSE IF a.m = 0 THEN FALSE
  ELSE IF b.m = 0 THEN TRUE
  ELSE PosLt(Neg(b), Neg(a))

num_gt(a, b) == num_lt(b, a)

num_le(a, b) == ~ num_lt(b, a)

\* a * b of two positive floats
float_mul(a, b) == RoundToFloat(a.m * b.m, a.e + b.e)

\* r ** k of a float r and an int k >= 0: the power in the float format,
\* computed by square-and-multiply, each product rounded to the format
\* (exact whenever the power itself fits the format)
RECURSIVE float_pow(_, _)
float_pow(r, k) ==
  IF k = 0 THEN One
  ELSE IF k = 1 THEN r
  ELSE LET h  == float_pow(r, k \div 2)
           sq == float_mul(h, h)
       IN  IF k % 2 = 0 THEN sq ELSE float_mul(sq, r)

\* a + b of two positive floats; an addend below a quarter of the other's
\* last place does not change the rounded sum
float_add(a, b) ==
  LET hi == IF PosLt(a, b) THEN b ELSE a
      lo == IF PosLt(a, b) THEN a ELSE b
      d  == hi.e - lo.e
  IN  IF d >= MantBits + 2 THEN hi
      ELSE RoundToFloat(hi.m * Pow2(d) + lo.m, lo.e)

\* ---------------------------------------------------------------- Fraction
RECURSIVE GCD(_, _)
GCD(a, b) == IF b = 0 THEN a ELSE GCD(b, a % b)

\* Fraction(numerator, denominator) as written, without normalisation
FractionUnreduced(n, d) == [numerator |-> n, denominator |-> d]

\* Fraction(numerator, denominator), denominator > 0: the constructor
\* divides both by their greatest common divisor
Fraction(n, d) ==
  LET g == GCD(n, d)
  IN  [numerator |-> n \div g, denominator |-> d \div g]

\* float(Fraction): numerator / denominator, correctly rounded
float(f) ==
  LET s      == MantBits + 1 + BitLen(f.denominator)
      scaled == f.numerator * Pow2(s)
      q      == scaled \div f.denominator
      sticky == IF scaled % f.denominator = 0 THEN 0 ELSE 1
  IN  RoundToFloat(2 * q + sticky, 0 - s - 1)

\* ----------------------------------------------------------- sorted(set)
\* the least element of a non-empty set of numbers
MinOf(S) == CHOOSE x \in S : \A y \in S : num_le(x, y)

RECURSIVE sorted(_)
sorted(S) ==
  IF S = {} THEN << >>
  ELSE LET x == MinOf(S) IN << x >> \o sorted(S \ {x})

\* ------------------------------------------ generate_semidomain_elements
\* a loop that tests after adding
RECURSIVE GenLoopAddFirst(_, _, _, _, _)
GenLoopAddFirst(r, max_value, max_power, k, elements) ==
  IF k >= max_power THEN elements
  ELSE LET element == float_pow(r, k)
       IN  IF num_gt(element, max_value) THEN elements \cup {element}
           ELSE GenLoopAddFirst(r, max_value, max_power, k + 1,
                                elements \cup {element})

\* a loop that skips an excess element and goes on
RECURSIVE GenLoopFilter(_, _, _, _, _)
GenLoopFilter(r, max_value, max_power, k, elements) ==
  IF k >= max_power THEN elements
  ELSE LET element == float_pow(r, k)
       IN  IF num_gt(element, max_value)
           THEN GenLoopFilter(r, max_value, max_power, k + 1, elements)
           ELSE GenLoopFilter(r, max_value, max_power, k + 1,
                              elements \cup {element})

\* for k in range(max_power): break at the first element > max_value
RECURSIVE GenLoop(_, _, _, _, _)
GenLoop(r, max_value, max_power, k, elements) ==
  IF k >= max_power THEN elements
  ELSE LET element == float_pow(r, k)
       IN  IF num_gt(element, max_value) THEN elements
           ELSE GenLoop(r, max_value, max_power, k + 1,
                        elements \cup {element})

generate_semidomain_elements(r, max_value, max_power) ==
  sorted(GenLoop(r, max_value, max_power, 0, {}))

\* ------------------------------------------------ check_goldbach_analogue
\* {a + b for a, b in product(elements, repeat=2)}
PairSums(elements) ==
  { float_add(elements[i], elements[j]) :
      i \in 1..Len(elements), j \in 1..Len(elements) }

\* range(4, max_value + 1, 2): the exclusive stop of the scan
EvenStopExclusive(max_value) == max_value

EvenStop(max_value) == max_value + 1

\* for even_num in range(FirstEven, EvenStop, 2): the warnings logged, one
\* for the first even_num not in sums, none when the loop runs to its end
RECURSIVE FirstUncovered(_, _, _)
FirstUncovered(sums, even_num, stop) ==
  IF even_num >= stop THEN << >>
  ELSE IF IntToNum(even_num) \notin sums THEN << even_num >>
  ELSE FirstUncovered(sums, even_num + EvenStep, stop)

\* the even_num values the checker warns about: at most one
check_warning(r, max_value) ==
  LET elements == generate_semidomain_elements(r, IntToNum(max_value),
                                               DefaultMaxPower)
      sums     == PairSums(elements)
  IN  FirstUncovered(sums, FirstEven, EvenStop(max_value))

\* False after a warning, True otherwise
check_goldbach_analogue(r, max_value) == check_warning(r, max_value) = << >>

\* --------------------------------------- find_rational_satisfying_goldbach
\* valid_rationals.insert(0, r)
list_insert_front(l, x) == << x >> \o l

\* valid_rationals.append(r)
list_append(l, x) == Append(l, x)

\* range(min_denominator, max_denominator + 1): the exclusive stop
OuterStop(max_den) == max_den + 1

\* range(1, denominator): the stop one short
InnerStopExclusive(d) == d

\* range(1, 2 * denominator + 1): numerators beyond the denominator
InnerStopWide(d) == 2 * d + 1

\* range(1, denominator + 1): the exclusive stop
InnerStop(d) == d + 1

VARIABLES
  \* the pure functions: arguments, position and returned values
  arg_r, arg_max_value, arg_max_power, fpc, ret_elements, ret_check,
  ret_warning,
  \* the search: parameters, loop variables, locals and position
  max_value, max_denominator, min_denominator, denominator, numerator,
  valid_rationals, total_checked, pc,
  \* the "Checking r = ..." / "Added r = ..." records logged so far
  checked

fnvars == << arg_r, arg_max_value, arg_max_power, fpc, ret_elements,
             ret_check, ret_warning >>

drvars == << max_value, max_denominator, min_denominator, denominator,
             numerator, valid_rationals, total_checked, pc, checked >>

vars == << arg_r, arg_max_value, arg_max_power, fpc, ret_elements,
           ret_check, ret_warning, max_value, max_denominator,
           min_denominator, denominator, numerator, valid_rationals,
           total_checked, pc, checked >>

\* whether a positive number is integral, and its value then
IsInt(a) == a.e >= 0 \/ a.m % Pow2(0 - a.e) = 0

NumToInt(a) == IF a.e >= 0 THEN a.m * Pow2(a.e) ELSE a.m \div Pow2(0 - a.e)

\* ---------------------------------------------------- inputs of the model
FnBases == { float(Fraction(n, d)) : n \in 1..MaxBaseInt, d \in 1..MaxBaseInt }

FnMaxValues == { float(Fraction(1, 2)) } \cup { IntToNum(i) : i \in 1..MaxFnValue }

FnMaxPowers == (1..MaxFnPower) \cup { DefaultMaxPower }

\* the parameters of a search, << max_value, max_denominator,
\* min_denominator >>: small ones, invalid ones included, and the defaults
SearchConfigs ==
  (((0 - 1)..MaxSmallValue) \X ((0 - 1)..MaxSmallDen) \X ((0 - 1)..2))
  \cup { << DefaultMaxValue, DefaultMaxDenominator, DefaultMinDenominator >> }

\* ------------------------------------------------- the functions, applied
FnIdle ==
  /\ arg_r = One /\ arg_max_value = One /\ arg_max_power = 1
  /\ fpc = "idle" /\ ret_elements = << >> /\ ret_check = FALSE
  /\ ret_warning = << >>

SearchIdle ==
  /\ max_value = 0 /\ max_denominator = 0 /\ min_denominator = 0
  /\ denominator = 0 /\ numerator = 0 /\ valid_rationals = << >>
  /\ total_checked = 0 /\ pc = "idle" /\ checked = << >>

FnInit ==
  /\ arg_r \in FnBases
  /\ arg_max_value \in FnMaxValues
  /\ arg_max_power \in FnMaxPowers
  /\ fpc = "call" /\ ret_elements = << >> /\ ret_check = FALSE
  /\ ret_warning = << >>
  /\ SearchIdle

\* generate_semidomain_elements(r, max_value, max_power)
CallGenerate ==
  /\ fpc = "call"
  /\ ret_elements' = generate_semidomain_elements(arg_r, arg_max_value,
                                                  arg_max_power)
  /\ fpc' = "generated"
  /\ UNCHANGED << arg_r, arg_max_value, arg_max_power, ret_check,
                  ret_warning >>
  /\ UNCHANGED drvars

\* check_goldbach_analogue(r, max_value), max_value an int
CallCheck ==
  /\ fpc = "call"
  /\ IsInt(arg_max_value)
  /\ ret_check' = check_goldbach_analogue(arg_r, NumToInt(arg_max_value))
  /\ ret_warning' = check_warning(arg_r, NumToInt(arg_max_value))
  /\ fpc' = "checked"
  /\ UNCHANGED << arg_r, arg_max_value, arg_max_power, ret_elements >>
  /\ UNCHANGED drvars

FnNext == CallGenerate \/ CallCheck

SpecFn == FnInit /\ [][FnNext]_vars

\* ------------------------------------------------------------- the search
\* the call: start_time, valid_rationals = [], total_checked = 0, and the
\* outer range about to yield its first denominator
Init ==
  /\ \E c \in SearchConfigs :
       max_value = c[1] /\ max_denominator = c[2] /\ min_denominator = c[3]
  /\ denominator = min_denominator
  /\ numerator = 0
  /\ valid_rationals = << >>
  /\ total_checked = 0
  /\ pc = "outer"
  /\ checked = << >>
  /\ FnIdle

\* for denominator in range(min_denominator, max_denominator + 1): enter
\* the body, the inner range about to yield numerator 1
EnterDenominator ==
  /\ pc = "outer"
  /\ denominator < OuterStop(max_denominator)
  /\ numerator' = 1
  /\ pc' = "inner"
  /\ UNCHANGED << max_value, max_denominator, min_denominator, denominator,
                  valid_rationals, total_checked, checked >>
  /\ UNCHANGED fnvars

\* one pass of the inner body: build r, count it, check float(r), append
CheckCandidate ==
  /\ pc = "inner"
  /\ numerator < InnerStop(denominator)
  /\ LET r  == Fraction(numerator, denominator)
         ok == check_goldbach_analogue(float(r), max_value)
     IN  /\ total_checked' = total_checked + 1
         /\ valid_rationals' = IF ok THEN list_append(valid_rationals, r)
                               ELSE valid_rationals
         /\ checked' = Append(checked, [numerator |-> numerator,
                                        denominator |-> denominator,
                                        passed |-> ok])
  /\ numerator' = numerator + 1
  /\ UNCHANGED << max_value, max_denominator, min_denominator, denominator,
                  pc >>
  /\ UNCHANGED fnvars

\* the inner range is exhausted: on to the next denominator
NextDenominator ==
  /\ pc = "inner"
  /\ numerator >= InnerStop(denominator)
  /\ denominator' = denominator + 1
  /\ pc' = "outer"
  /\ UNCHANGED << max_value, max_denominator, min_denominator, numerator,
                  valid_rationals, total_checked, checked >>
  /\ UNCHANGED fnvars

\* the outer range is exhausted: log the totals, return valid_rationals
Return ==
  /\ pc = "outer"
  /\ denominator >= OuterStop(max_denominator)
  /\ pc' = "done"
  /\ UNCHANGED << max_value, max_denominator, min_denominator, denominator,
                  numerator, valid_rationals, total_checked, checked >>
  /\ UNCHANGED fnvars

Next == EnterDenominator \/ CheckCandidate \/ NextDenominator \/ Return

Spec == Init /\ [][Next]_vars

\* ------------------------------------------------- vocabulary of the claims
\* the elements of a sequence
Range(s) == { s[i] : i \in 1..Len(s) }

IsStrictlyAscending(s) == \A i \in 1..(Len(s) - 1) : num_lt(s[i], s[i + 1])

\* the even integers the checker has to verify for ceiling mv
EvensUpTo(mv) == { e \in 4..mv : e % 2 = 0 }

\* e = a + b for some ordered pair (a, b) of elements
IsPairSum(e, elements) ==
  \E i \in 1..Len(elements), j \in 1..Len(elements) :
     float_add(elements[i], elements[j]) = IntToNum(e)

\* the exponents below max_power whose power exceeds max_value
ExcessExponents(r, mv, mp) == { k \in 0..(mp - 1) : num_gt(float_pow(r, k), mv) }

\* the smaller of max_power and the least exponent whose power exceeds max_value
CutOff(r, mv, mp) ==
  IF ExcessExponents(r, mv, mp) = {} THEN mp
  ELSE CHOOSE k \in ExcessExponents(r, mv, mp) :
         \A j \in ExcessExponents(r, mv, mp) : k <= j

\* the candidates of the grid in nested-loop order
RECURSIVE EnumFrom(_, _, _)
EnumFrom(d, n, hi) ==
  IF d > hi THEN << >>
  ELSE IF n > d THEN EnumFrom(d + 1, 1, hi)
  ELSE << << n, d >> >> \o EnumFrom(d, n + 1, hi)

Enumeration == EnumFrom(min_denominator, 1, max_denominator)

IsPrefix(s, t) == Len(s) <= Len(t) /\ \A i \in 1..Len(s) : s[i] = t[i]

CheckedPairs == [ i \in 1..Len(checked) |-> << checked[i].numerator, checked[i].denominator >> ]

IsPassed(c) == c.passed

PassedCandidates == SelectSeq(checked, IsPassed)

\* same rational value, whatever the representation
SameValue(f, c) == f.numerator * c.denominator = c.numerator * f.denominator

InLowestTerms(f) ==
  /\ f.denominator > 0
  /\ \A g \in 2..f.denominator : ~ (f.numerator % g = 0 /\ f.denominator % g = 0)

InvalidConfiguration == max_value <= 0 \/ min_denominator <= 0 \/ max_denominator <= 0

Two == IntToNum(2)

\* ------------------------------------------------------------------ claims
\* C1: check_goldbach_analogue(r, max_value) returns True exactly when every
\* even integer of 4..max_value is a sum a + b of two generated elements;
\* when it returns False it has stopped at the smallest uncovered even
\* integer, and the outcome is always a Boolean, never an error.
C1_CheckIffAllEvensCovered ==
  fpc = "checked" =>
    LET mv       == NumToInt(arg_max_value)
        elements == generate_semidomain_elements(arg_r, arg_max_value,
                                                 DefaultMaxPower)
    IN  /\ ret_check \in BOOLEAN
        /\ ret_check <=> \A e \in EvensUpTo(mv) : IsPairSum(e, elements)
        /\ ~ ret_check =>
             /\ Len(ret_warning) = 1
             /\ ret_warning[1] \in EvensUpTo(mv)
             /\ ~ IsPairSum(ret_warning[1], elements)
             /\ \A e \in EvensUpTo(mv) :
                  e < ret_warning[1] => IsPairSum(e, elements)

\* C1 witness: a check that passed some even integers and failed on a later one
C1_Witness ==
  fpc = "checked" /\ ~ ret_check /\ ret_warning # << >> /\ ret_warning[1] > 4

\* C2: for r > 0, max_value >= 1 and max_power >= 1 the returned sequence
\* is strictly ascending and holds no value greater than max_value.
C2_AscendingWithinCeiling ==
  (fpc = "generated" /\ num_le(One, arg_max_value) /\ arg_max_power >= 1) =>
    /\ IsStrictlyAscending(ret_elements)
    /\ \A i \in 1..Len(ret_elements) : num_le(ret_elements[i], arg_max_value)

\* C2 witness: a generation of several elements cut short by the ceiling
C2_Witness ==
  /\ fpc = "generated" /\ num_le(One, arg_max_value)
  /\ Len(ret_elements) >= 3 /\ Len(ret_elements) < arg_max_power
  /\ num_gt(float_pow(arg_r, Len(ret_elements)), arg_max_value)

\* C3: with max_value >= 4 and 1 <= min_denominator <= max_denominator the
\* result list stays empty: each candidate checked has a value in (0, 1],
\* no pairwise sum of its elements exceeds 2, and it did not pass.
C3_EmptyResult ==
  (max_value >= 4 /\ 1 <= min_denominator /\ min_denominator <= max_denominator) =>
    /\ valid_rationals = << >>
    /\ checked # << >> =>
         LET c  == checked[Len(checked)]
             r  == float(Fraction(c.numerator, c.denominator))
             el == generate_semidomain_elements(r, IntToNum(max_value),
                                                DefaultMaxPower)
         IN  /\ num_lt(IntToNum(0), r) /\ num_le(r, One)
             /\ \A s \in PairSums(el) : num_le(s, Two)
             /\ ~ c.passed

\* C3 witness: the default search has run to its end
C3_Witness ==
  /\ pc = "done"
  /\ max_value = DefaultMaxValue
  /\ max_denominator = DefaultMaxDenominator
  /\ min_denominator = DefaultMinDenominator
  /\ total_checked = 55
  /\ valid_rationals = << >>

\* C4: the candidates checked so far are a prefix of the nested-loop
\* enumeration, the result list is the subsequence of those that passed, in
\* that order, and a step leaves the list alone or appends one entry.
C4_StateOK ==
  /\ IsPrefix(CheckedPairs, Enumeration)
  /\ Len(valid_rationals) = Len(PassedCandidates)
  /\ \A i \in 1..Len(valid_rationals) :
       SameValue(valid_rationals[i], PassedCandidates[i])

C4_EnumerationOrder ==
  [][ /\ C4_StateOK'
      /\ \/ valid_rationals' = valid_rationals
         \/ /\ Len(valid_rationals') = Len(valid_rationals) + 1
            /\ SubSeq(valid_rationals', 1, Len(valid_rationals)) = valid_rationals
    ]_vars

\* C4 witness: a finished search that accepted candidates of different values
C4_Witness ==
  /\ pc = "done" /\ Len(valid_rationals) >= 3
  /\ valid_rationals[1] # valid_rationals[2]

\* C5: a search with min_denominator = 1 and max_denominator = D >= 1 ends
\* with total_checked = D(D+1)/2, every pair 1 <= n <= d <= D checked once.
C5_TriangularCount ==
  (pc = "done" /\ min_denominator = 1 /\ max_denominator >= 1) =>
    /\ total_checked = (max_denominator * (max_denominator + 1)) \div 2
    /\ Len(checked) = total_checked
    /\ \A d \in 1..max_denominator : \A n \in 1..d :
         Cardinality({ i \in 1..Len(checked) : CheckedPairs[i] = << n, d >> }) = 1

\* C5 witness: a finished search of six candidates that all failed
C5_Witness ==
  /\ pc = "done" /\ min_denominator = 1 /\ max_denominator = 3
  /\ total_checked = 6 /\ valid_rationals = << >>

\* C6 (as claimed): the entry appended for a passing pair (n, d) has
\* numerator n and denominator d, one entry per passing pair.
C6_EntryKeepsPair ==
  /\ Len(valid_rationals) = Len(PassedCandidates)
  /\ \A i \in 1..Len(valid_rationals) :
       /\ valid_rationals[i].numerator = PassedCandidates[i].numerator
       /\ valid_rationals[i].denominator = PassedCandidates[i].denominator

\* C6 (amended): one entry per passing pair (n, d), and the entry is the
\* value n/d in lowest terms, so pairs of equal value give equal entries.
C6_EntryInLowestTerms ==
  /\ Len(valid_rationals) = Len(PassedCandidates)
  /\ \A i \in 1..Len(valid_rationals) :
       /\ SameValue(valid_rationals[i], PassedCandidates[i])
       /\ InLowestTerms(valid_rationals[i])

\* C6 witness: two passing pairs of equal value, 1/2 and 2/4, both in the list
C6_Witness ==
  \E i, j \in 1..Len(valid_rationals) :
     /\ i < j /\ Len(valid_rationals) = Len(PassedCandidates)
     /\ CheckedPairs # << >>
     /\ PassedCandidates[i].numerator = 1 /\ PassedCandidates[i].denominator = 2
     /\ PassedCandidates[j].numerator = 2 /\ PassedCandidates[j].denominator = 4
     /\ valid_rationals[i] = valid_rationals[j]

\* C7 (as claimed): a search configured with a non-positive max_value or a
\* denominator bound that is zero or negative never returns normally.
C7_InvalidConfigurationAborts == InvalidConfiguration => pc # "done"

\* C8 (as claimed): when every power r^0 .. r^max_power is within
\* max_value, r^max_power is among the returned elements.
C8_IncludesMaxPower ==
  (fpc = "generated" /\
   \A k \in 0..arg_max_power : num_le(float_pow(arg_r, k), arg_max_value)) =>
    float_pow(arg_r, arg_max_power) \in Range(ret_elements)

C10_BelowFourAllPass ==
  max_value < 4 =>
    /\ \A i \in 1..Len(checked) : checked[i].passed
    /\ Len(valid_rationals) = total_checked
    /\ Len(checked) = total_checked

\* C10 witness: a finished search with max_value = 3 that returned all six candidates
C10_Witness ==
  /\ pc = "done" /\ max_value = 3 /\ total_checked = 6
  /\ Len(valid_rationals) = 6

====
